---- MODULE Spec2Model ----
(***************************************************************************)
(* Model of src/fetch-jira-stories.js: the pipeline main() runs            *)
(* fetchUserStories -> transformUserStory (per issue) -> saveToJSON and    *)
(* then prints a histogram of the status names.                            *)
(*                                                                         *)
(* JavaScript values are tagged records, so that `?.`, `||`, truthiness    *)
(* and property reads are computed the way the engine computes them.       *)
(***************************************************************************)
EXTENDS Integers, Sequences, FiniteSets, TLC

VARIABLES pc, requests, rawUserStories, transformedUserStories, normalized,
          dirExists, file, writes, savedPath, statusCounts,
          stdout, stderr, exited, exitCode

vars == <<pc, requests, rawUserStories, transformedUserStories, normalized,
          dirExists, file, writes, savedPath, statusCounts,
          stdout, stderr, exited, exitCode>>

(***************************************************************************)
(* Bounds of the explored inputs.                                          *)
(***************************************************************************)
MaxIssues == 3
MaxLinks == 2
MaxItems == 2
MaxBlocks == 1
MaxSegs == 1

(***************************************************************************)
(* JavaScript values.                                                      *)
(***************************************************************************)
Undef == [t |-> "undefined"]
Null == [t |-> "null"]
Str(s) == [t |-> "string", v |-> s]
Num(n) == [t |-> "number", n |-> n]
Arr(s) == [t |-> "array", items |-> s]
Obj(p) == [t |-> "object", p |-> p]
Fun(name) == [t |-> "function", name |-> name]
EmptyArr == Arr(<<>>)
EmptyObj == Obj(<<>>)

Nullish(v) == v.t \in {"undefined", "null"}

\* ToBoolean: undefined, null, "" and 0 are falsy, every object is truthy
Truthy(v) ==
    CASE v.t \in {"undefined", "null"} -> FALSE
      [] v.t = "string" -> v.v # ""
      [] v.t = "number" -> v.n # 0
      [] OTHER -> TRUE

\* a || b
Or(a, b) == IF Truthy(a) THEN a ELSE b

\* o.k on a non-nullish o (own properties only; primitives have none here)
Get(o, k) == IF o.t = "object" /\ k \in DOMAIN o.p THEN o.p[k] ELSE Undef

\* o?.k
OptGet(o, k) == IF Nullish(o) THEN Undef ELSE Get(o, k)

\* o?.[0]: the first entry of an array, the first character of a string,
\* the own property "0" of any other object
OptFirst(o) ==
    IF Nullish(o) THEN Undef
    ELSE IF o.t = "array"
         THEN IF Len(o.items) >= 1 THEN o.items[1] ELSE Undef
    ELSE IF o.t = "string"
         THEN IF o.v = "" THEN Undef ELSE Str(SubSeq(o.v, 1, 1))
    ELSE Get(o, "0")

\* String(v), as a template literal or string concatenation computes it;
\* an array is its entries joined by commas, nullish entries being empty
RECURSIVE ToStr(_)
ToStr(v) ==
    CASE v.t = "string" -> v.v
      [] v.t = "number" -> ToString(v.n)
      [] v.t = "undefined" -> "undefined"
      [] v.t = "null" -> "null"
      [] v.t = "function" -> "function " \o v.name \o "() { [native code] }"
      [] v.t = "array" ->
           IF v.items = <<>> THEN ""
           ELSE LET last == v.items[Len(v.items)]
                    text == IF Nullish(last) THEN "" ELSE ToStr(last) IN
                IF Len(v.items) = 1 THEN text
                ELSE ToStr(Arr(SubSeq(v.items, 1, Len(v.items) - 1)))
                     \o "," \o text
      [] OTHER -> "[object Object]"

(***************************************************************************)
(* JIRA_CONFIG, as validated at load time (all four settings non-empty).   *)
(***************************************************************************)
JIRA_CONFIG == [baseURL |-> "https://jira.example", email |-> "me@example",
                apiToken |-> "token", projectKey |-> "PROJ"]

(***************************************************************************)
(* transformUserStory                                                      *)
(***************************************************************************)
Placeholder == Str("No description available")

Description(fields) ==
    Or(OptGet(OptFirst(OptGet(OptFirst(OptGet(Get(fields, "description"),
                                              "content")),
                              "content")),
              "text"),
       Or(Get(fields, "description"), Placeholder))

Person(p) ==
    IF Truthy(p)
    THEN Obj([displayName |-> Get(p, "displayName"),
              emailAddress |-> Get(p, "emailAddress"),
              accountId |-> Get(p, "accountId")])
    ELSE Null

NameOf(entry) == Get(entry, "name")

\* arr?.map(entry => entry.name)
MapNames(arr) ==
    IF Nullish(arr) THEN Undef
    ELSE Arr([i \in 1..Len(arr.items) |-> NameOf(arr.items[i])])

\* that call raises TypeError: arr has no map method, or an entry is nullish
MapNamesThrows(arr) ==
    /\ ~Nullish(arr)
    /\ \/ arr.t # "array"
       \/ \E i \in 1..Len(arr.items) : Nullish(arr.items[i])

\* the `|| []` default left out
OrEmptyMissing(v) == v

OrEmpty(v) == Or(v, EmptyArr)

LinkDirection(link) ==
    Or(Get(Get(link, "type"), "inward"), Get(Get(link, "type"), "outward"))

LinkedIssue(link) ==
    Or(OptGet(Get(link, "inwardIssue"), "key"),
       OptGet(Get(link, "outwardIssue"), "key"))

IssueLink(link) ==
    Obj([type |-> Get(Get(link, "type"), "name"),
         direction |-> LinkDirection(link),
         linkedIssue |-> LinkedIssue(link)])

IssueLinkThrows(link) == Nullish(link) \/ Nullish(Get(link, "type"))

\* issuelinks?.map(link => ({...}))
MapLinks(arr) ==
    IF Nullish(arr) THEN Undef
    ELSE Arr([i \in 1..Len(arr.items) |-> IssueLink(arr.items[i])])

\* that call raises TypeError
MapLinksThrows(arr) ==
    /\ ~Nullish(arr)
    /\ \/ arr.t # "array"
       \/ \E i \in 1..Len(arr.items) : IssueLinkThrows(arr.items[i])

\* the run raises TypeError instead of returning
transformThrows(issue) ==
    \/ Nullish(issue)
    \/ Nullish(Get(issue, "fields"))
    \/ Nullish(Get(Get(issue, "fields"), "status"))
    \/ Nullish(Get(Get(Get(issue, "fields"), "status"), "statusCategory"))
    \/ MapNamesThrows(Get(Get(issue, "fields"), "components"))
    \/ MapNamesThrows(Get(Get(issue, "fields"), "fixVersions"))
    \/ MapLinksThrows(Get(Get(issue, "fields"), "issuelinks"))

\* the returned object, when the run does not raise
transformUserStory(issue) ==
    LET fields == Get(issue, "fields") IN
    Obj([key |-> Get(issue, "key"),
         summary |-> Get(fields, "summary"),
         description |-> Description(fields),
         status |-> Obj([name |-> Get(Get(fields, "status"), "name"),
                         category |-> Get(Get(Get(fields, "status"),
                                              "statusCategory"), "name")]),
         priority |-> Obj([name |-> Or(OptGet(Get(fields, "priority"), "name"),
                                       Str("None")),
                           id |-> Or(OptGet(Get(fields, "priority"), "id"),
                                     Null)]),
         assignee |-> Person(Get(fields, "assignee")),
         reporter |-> Person(Get(fields, "reporter")),
         created |-> Get(fields, "created"),
         updated |-> Get(fields, "updated"),
         components |-> OrEmpty(MapNames(Get(fields, "components"))),
         labels |-> OrEmpty(Get(fields, "labels")),
         fixVersions |-> OrEmpty(MapNames(Get(fields, "fixVersions"))),
         storyPoints |-> Or(Get(fields, "customfield_10016"), Null),
         issueLinks |-> OrEmpty(MapLinks(Get(fields, "issuelinks"))),
         url |-> Str(JIRA_CONFIG.baseURL \o "/browse/"
                     \o ToStr(Get(issue, "key")))])

(***************************************************************************)
(* saveToJSON: the document and its serialisation.                         *)
(***************************************************************************)
\* the count taken one short of the list
OutputDocumentShortCount(userStories, now) ==
    Obj([metadata |-> Obj([projectKey |-> Str(JIRA_CONFIG.projectKey),
                           totalStories |-> Num(Len(userStories.items) - 1),
                           fetchedAt |-> Str(now),
                           jiraBaseUrl |-> Str(JIRA_CONFIG.baseURL)]),
         userStories |-> userStories])

\* the object literal `output`
OutputDocument(userStories, now) ==
    Obj([metadata |-> Obj([projectKey |-> Str(JIRA_CONFIG.projectKey),
                           totalStories |-> Num(Len(userStories.items)),
                           fetchedAt |-> Str(now),
                           jiraBaseUrl |-> Str(JIRA_CONFIG.baseURL)]),
         userStories |-> userStories])

\* JSON.stringify followed by a parse: a property holding undefined or a
\* function is dropped, an array entry holding one becomes null
RECURSIVE JSONStringify(_)
JSONStringify(v) ==
    CASE v.t = "object" ->
           Obj([k \in {x \in DOMAIN v.p : v.p[x].t \notin {"undefined", "function"}}
                  |-> JSONStringify(v.p[k])])
      [] v.t = "array" ->
           Arr([i \in 1..Len(v.items) |->
                  IF v.items[i].t \in {"undefined", "function"}
                  THEN Null ELSE JSONStringify(v.items[i])])
      [] OTHER -> v

NoFile == [t |-> "absent"]
PartialFile == [t |-> "truncated"]
OutputPath == "data/jira-user-story.json"

(***************************************************************************)
(* main: the status histogram.                                             *)
(***************************************************************************)
ObjectPrototypeMethods ==
    {"constructor", "toString", "toLocaleString", "valueOf", "hasOwnProperty",
     "isPrototypeOf", "propertyIsEnumerable", "__defineGetter__",
     "__defineSetter__", "__lookupGetter__", "__lookupSetter__"}

\* the accumulator `{}`: its own properties and the order they were added in
EmptyCounts == [t |-> "object", p |-> <<>>, order |-> <<>>]

\* acc[k] on an object literal: own property, else what Object.prototype holds
AccGet(acc, k) ==
    IF k \in DOMAIN acc.p THEN acc.p[k]
    ELSE IF k = "__proto__" THEN EmptyObj
    ELSE IF k \in ObjectPrototypeMethods
         THEN Fun(IF k = "constructor" THEN "Object" ELSE k)
    ELSE Undef

\* acc[k] = v; assigning a primitive to __proto__ is ignored by its setter
AccSet(acc, k, v) ==
    IF k = "__proto__" THEN acc
    ELSE [t |-> "object",
          p |-> [x \in DOMAIN acc.p \cup {k} |-> IF x = k THEN v ELSE acc.p[x]],
          order |-> IF k \in DOMAIN acc.p THEN acc.order
                    ELSE Append(acc.order, k)]

\* a + 1
PlusOne(a) ==
    IF a.t = "number" THEN Num(a.n + 1) ELSE Str(ToStr(a) \o "1")

\* one call of the reducer
CountStatus(acc, story) ==
    LET k == ToStr(Get(Get(story, "status"), "name")) IN
    AccSet(acc, k, PlusOne(Or(AccGet(acc, k), Num(0))))

RECURSIVE StatusCounts(_)
StatusCounts(stories) ==
    IF stories = <<>> THEN EmptyCounts
    ELSE CountStatus(StatusCounts(SubSeq(stories, 1, Len(stories) - 1)),
                     stories[Len(stories)])

\* Object.entries order: the array-index keys ("0", "7", "10", ...) in
\* ascending numeric order, then the other keys in insertion order
Digits == {"0", "1", "2", "3", "4", "5", "6", "7", "8", "9"}

DigitValue(c) ==
    CASE c = "0" -> 0 [] c = "1" -> 1 [] c = "2" -> 2 [] c = "3" -> 3
      [] c = "4" -> 4 [] c = "5" -> 5 [] c = "6" -> 6 [] c = "7" -> 7
      [] c = "8" -> 8 [] c = "9" -> 9

RECURSIVE IndexValue(_)
IndexValue(k) ==
    IF k = "" THEN 0
    ELSE IndexValue(SubSeq(k, 1, Len(k) - 1)) * 10
         + DigitValue(SubSeq(k, Len(k), Len(k)))

\* a canonical numeric string below 2^32 - 1
IsArrayIndex(k) ==
    /\ Len(k) \in 1..10
    /\ \A i \in 1..Len(k) : SubSeq(k, i, i) \in Digits
    /\ Len(k) = 1 \/ SubSeq(k, 1, 1) # "0"
    /\ Len(k) = 10 =>
         \/ IndexValue(SubSeq(k, 1, 9)) < 429496729
         \/ /\ IndexValue(SubSeq(k, 1, 9)) = 429496729
            /\ DigitValue(SubSeq(k, 10, 10)) <= 4

\* for two array-index keys: a sorts before b
IndexBefore(a, b) ==
    \/ Len(a) < Len(b)
    \/ /\ Len(a) = Len(b)
       /\ \E i \in 1..Len(a) :
            /\ SubSeq(a, 1, i - 1) = SubSeq(b, 1, i - 1)
            /\ DigitValue(SubSeq(a, i, i)) < DigitValue(SubSeq(b, i, i))

RECURSIVE SortedIndexKeys(_)
SortedIndexKeys(keys) ==
    IF keys = {} THEN <<>>
    ELSE LET first == CHOOSE a \in keys :
                         \A b \in keys \ {a} : IndexBefore(a, b) IN
         <<first>> \o SortedIndexKeys(keys \ {first})

RECURSIVE NamedKeys(_)
NamedKeys(order) ==
    IF order = <<>> THEN <<>>
    ELSE (IF IsArrayIndex(Head(order)) THEN <<>> ELSE <<Head(order)>>)
         \o NamedKeys(Tail(order))

\* the keys of Object.entries(counts), in its order
ObjectEntries(counts) ==
    SortedIndexKeys({k \in DOMAIN counts.p : IsArrayIndex(k)})
    \o NamedKeys(counts.order)

(***************************************************************************)
(* Inputs: the raw issues the remote service may return.                   *)
(***************************************************************************)
SeqsUpTo(S, n) == UNION {[1..k -> S] : k \in 0..n}

\* p with property k set to v
With(p, k, v) == [x \in DOMAIN p \cup {k} |-> IF x = k THEN v ELSE p[x]]

\* rich-text (document format) descriptions
Segments ==
    {Obj([type |-> Str("text"), text |-> Str("A")]),
     Obj([type |-> Str("text"), text |-> Str("")]),
     Obj([type |-> Str("mention"), attrs |-> EmptyObj])}

Blocks ==
    {Obj([type |-> Str("paragraph"), content |-> Arr(s)]) :
        s \in SeqsUpTo(Segments, MaxSegs)}
    \cup {Obj([type |-> Str("rule")])}

Docs ==
    {Obj([type |-> Str("doc"), content |-> Arr(b)]) :
        b \in SeqsUpTo(Blocks, MaxBlocks)}

\* bodies whose content is not an array: a string, and an object keyed "0"
OddBodies ==
    {Obj([content |-> Str("abc")]),
     Obj([content |-> Obj(With(<<>>, "0",
            Obj([content |-> Obj(With(<<>>, "0",
                   Obj([text |-> Str("T")])))])))])}

Descriptions == {Undef, Null, Str(""), Str("B")} \cup Docs \cup OddBodies

StatusOf(name, category) ==
    Obj([name |-> Str(name),
         statusCategory |-> Obj([name |-> Str(category)])])

Statuses ==
    {StatusOf("Open", "To Do"), StatusOf("Done", "Done"),
     StatusOf("constructor", "To Do"), StatusOf("7", "To Do"),
     Obj([name |-> Str("Open")]), Undef}

LinkType ==
    Obj([name |-> Str("Blocks"), inward |-> Str("is blocked by"),
         outward |-> Str("blocks")])

InwardLink == Obj([type |-> LinkType, inwardIssue |-> Obj([key |-> Str("PROJ-7")])])
OutwardLink == Obj([type |-> LinkType, outwardIssue |-> Obj([key |-> Str("PROJ-8")])])

Links ==
    {InwardLink, OutwardLink,
     Obj([type |-> LinkType]),
     Obj([inwardIssue |-> Obj([key |-> Str("PROJ-7")])])}

Named == {Obj([name |-> Str("UI")]), Obj([name |-> Str("API")]), EmptyObj}

People ==
    {Undef, Null,
     Obj([displayName |-> Str("Ann"), emailAddress |-> Str("ann@example"),
          accountId |-> Str("a1")]),
     Obj([displayName |-> Str("Bob"), accountId |-> Str("b2")])}

Priorities ==
    {Undef, Null, Obj([name |-> Str("High"), id |-> Str("2")]),
     Obj([name |-> Str("Low")])}

Timestamps == {Undef, Str("2024-05-01T10:00:00.000+0000")}

OptArrays(S, n) == {Undef, Null} \cup {Arr(s) : s \in SeqsUpTo(S, n)}

\* one field of an issue and a value the service may send for it
Variations ==
    ({"description"} \X Descriptions)
    \cup ({"status"} \X Statuses)
    \cup ({"priority"} \X Priorities)
    \cup ({"assignee", "reporter"} \X People)
    \cup ({"created", "updated"} \X Timestamps)
    \cup ({"components", "fixVersions"} \X OptArrays(Named, MaxItems))
    \cup ({"labels"} \X OptArrays({Str("ux"), Str("api")}, MaxItems))
    \cup ({"customfield_10016"} \X {Undef, Null, Num(0), Num(5)})
    \cup ({"issuelinks"} \X OptArrays(Links, MaxLinks))

\* only what the service always sends
MinimalFields ==
    [summary |-> Str("Login page"), status |-> StatusOf("Open", "To Do")]

\* the fields every stored issue carries, and nothing optional
RequiredFields ==
    [summary |-> Str("Login page"), status |-> StatusOf("Open", "To Do"),
     created |-> Str("2024-05-01T10:00:00.000+0000"),
     updated |-> Str("2024-05-01T10:00:00.000+0000")]

\* every requested field filled in
FullFields ==
    [summary |-> Str("Login page"), status |-> StatusOf("Done", "Done"),
     description |-> Obj([type |-> Str("doc"), content |-> Arr(<<
         Obj([type |-> Str("paragraph"), content |-> Arr(<<
             Obj([type |-> Str("text"), text |-> Str("A")])>>)])>>)]),
     priority |-> Obj([name |-> Str("High"), id |-> Str("2")]),
     assignee |-> Obj([displayName |-> Str("Ann"),
                       emailAddress |-> Str("ann@example"),
                       accountId |-> Str("a1")]),
     reporter |-> Obj([displayName |-> Str("Ann"),
                       emailAddress |-> Str("ann@example"),
                       accountId |-> Str("a1")]),
     created |-> Str("2024-05-01T10:00:00.000+0000"),
     updated |-> Str("2024-05-01T10:00:00.000+0000"),
     components |-> Arr(<<Obj([name |-> Str("UI")])>>),
     labels |-> Arr(<<Str("ux")>>),
     fixVersions |-> Arr(<<Obj([name |-> Str("API")])>>),
     customfield_10016 |-> Num(5),
     issuelinks |-> Arr(<<InwardLink>>)]

Issue(key, fields) == Obj([key |-> key, fields |-> Obj(fields)])

RawIssues ==
    {Issue(Str("PROJ-1"), With(f, var[1], var[2])) :
        f \in {MinimalFields, RequiredFields, FullFields},
        var \in Variations}
    \cup {Obj([fields |-> Obj(MinimalFields)])}

\* the issues a run of main is explored with
SampleIssues ==
    {Issue(Str("PROJ-1"), MinimalFields),
     Issue(Str("PROJ-2"), FullFields),
     Issue(Str("PROJ-3"), With(MinimalFields, "status",
                               StatusOf("constructor", "To Do"))),
     Issue(Str("PROJ-4"), With(MinimalFields, "status",
                               Obj([name |-> Str("Open")]))),
     Issue(Str("PROJ-5"), With(MinimalFields, "status",
                               StatusOf("7", "To Do")))}

Batches == SeqsUpTo(SampleIssues, MaxIssues)

\* what the search endpoint may answer with status 200
Responses ==
    {Obj([data |-> Obj([total |-> Num(Len(b)), issues |-> Arr(b)])]) :
        b \in Batches}
    \cup {Obj([data |-> EmptyObj])}

TypeError == Obj([message |-> Str("Cannot read properties of undefined")])

\* what the try block of fetchUserStories may raise: an HTTP error carrying
\* the remote's payload, a network failure carrying only a message, or the
\* TypeError of response.data.total on a response without a body
FetchErrors ==
    {Obj([message |-> Str("Request failed with status code 401"),
          response |-> Obj([data |-> Obj([errorMessages |->
                                            Arr(<<Str("Unauthorized")>>)])])]),
     Obj([message |-> Str("getaddrinfo ENOTFOUND")]),
     TypeError}
MkdirError == Obj([message |-> Str("EACCES: permission denied, mkdir")])
WriteError == Obj([message |-> Str("ENOSPC: no space left on device, write")])

\* new Date().toISOString() at the instants a run is explored with
Instants == {"2026-10-30T09:00:00.000Z", "2026-10-31T09:00:00.000Z"}

\* a document left by an earlier run
OldFile == JSONStringify(OutputDocument(EmptyArr, "2026-01-01T09:00:00.000Z"))

(***************************************************************************)
(* The run of main.                                                        *)
(***************************************************************************)
Log(msg, v) == [msg |-> msg, arg |-> v]

\* what main and fetchUserStories print before the request is issued
BannerLogs ==
    <<Log("Starting Jira user stories extraction...", Undef),
      Log("Project:", Str(JIRA_CONFIG.projectKey)),
      Log("Jira URL:", Str(JIRA_CONFIG.baseURL)),
      Log("Fetching user stories from project:", Str(JIRA_CONFIG.projectKey))>>

\* what they print once the request has resolved
FetchedLogs(response) ==
    <<Log("Found user stories:", Get(Get(response, "data"), "total")),
      Log("Transforming user stories...", Undef)>>

Init ==
    /\ pc = "start"
    /\ requests = 0
    /\ rawUserStories = Undef
    /\ transformedUserStories = <<>>
    /\ normalized = 0
    /\ dirExists \in BOOLEAN
    /\ file \in (IF dirExists THEN {NoFile, OldFile} ELSE {NoFile})
    /\ writes = 0
    /\ savedPath = Undef
    /\ statusCounts = Undef
    /\ stdout = <<>>
    /\ stderr = <<>>
    /\ exited = FALSE
    /\ exitCode = 0

\* the catch block reporting the error without process.exit(1)
MainCatchNoExit(error, errs) ==
    /\ stderr' = Append(errs, Log("Process failed:", Get(error, "message")))
    /\ exited' = TRUE
    /\ exitCode' = 0
    /\ pc' = "failed"

\* the catch block of main: report and process.exit(1)
MainCatch(error, errs) ==
    /\ stderr' = Append(errs, Log("Process failed:", Get(error, "message")))
    /\ exited' = TRUE
    /\ exitCode' = 1
    /\ pc' = "failed"

\* main up to its await: the banner, then fetchUserStories issues the request
MainStart ==
    /\ pc = "start"
    /\ stdout' = stdout \o BannerLogs
    /\ requests' = requests + 1
    /\ pc' = "await_fetch"
    /\ UNCHANGED <<rawUserStories, transformedUserStories, normalized,
                   dirExists, file, writes, savedPath, statusCounts,
                   stderr, exited, exitCode>>

\* the request resolves: fetchUserStories returns response.data.issues
FetchResolve ==
    /\ pc = "await_fetch"
    /\ \E response \in Responses :
         /\ stdout' = stdout \o FetchedLogs(response)
         /\ rawUserStories' = Get(Get(response, "data"), "issues")
    /\ pc' = "transform"
    /\ UNCHANGED <<requests, transformedUserStories, normalized,
                   dirExists, file, writes, savedPath, statusCounts,
                   stderr, exited, exitCode>>

\* fetchUserStories reporting the error and returning an empty list
FetchRejectSwallowed ==
    /\ pc = "await_fetch"
    /\ \E error \in FetchErrors :
         stderr' = Append(stderr,
                          Log("Error fetching user stories:",
                              Or(OptGet(Get(error, "response"), "data"),
                                 Get(error, "message"))))
    /\ rawUserStories' = EmptyArr
    /\ pc' = "transform"
    /\ UNCHANGED <<requests, transformedUserStories, normalized, dirExists,
                   file, writes, savedPath, statusCounts, stdout, exited,
                   exitCode>>

\* fetchUserStories reporting the error and issuing the request again
FetchRejectRetry ==
    /\ pc = "await_fetch"
    /\ requests < 3
    /\ \E error \in FetchErrors :
         stderr' = Append(stderr,
                          Log("Error fetching user stories:",
                              Or(OptGet(Get(error, "response"), "data"),
                                 Get(error, "message"))))
    /\ requests' = requests + 1
    /\ UNCHANGED <<pc, rawUserStories, transformedUserStories, normalized,
                   dirExists, file, writes, savedPath, statusCounts, stdout,
                   exited, exitCode>>

\* the request rejects: fetchUserStories reports and rethrows, main catches
FetchReject ==
    /\ pc = "await_fetch"
    /\ \E error \in FetchErrors :
         MainCatch(error,
                   Append(stderr,
                          Log("Error fetching user stories:",
                              Or(OptGet(Get(error, "response"), "data"),
                                 Get(error, "message")))))
    /\ UNCHANGED <<requests, rawUserStories, transformedUserStories,
                   normalized, dirExists, file, writes, savedPath,
                   statusCounts, stdout>>

\* rawUserStories.map: the callback returns for the next issue
TransformNext ==
    /\ pc = "transform"
    /\ rawUserStories.t = "array"
    /\ normalized < Len(rawUserStories.items)
    /\ ~transformThrows(rawUserStories.items[normalized + 1])
    /\ transformedUserStories' =
         Append(transformedUserStories,
                transformUserStory(rawUserStories.items[normalized + 1]))
    /\ normalized' = normalized + 1
    /\ UNCHANGED <<pc, requests, rawUserStories, dirExists, file, writes,
                   savedPath, statusCounts, stdout, stderr, exited, exitCode>>

\* rawUserStories.map raises: there is no array to map, or the callback
\* raises on the next issue; main catches
TransformRaise ==
    /\ pc = "transform"
    /\ \/ /\ rawUserStories.t # "array"
          /\ normalized' = normalized
       \/ /\ rawUserStories.t = "array"
          /\ normalized < Len(rawUserStories.items)
          /\ transformThrows(rawUserStories.items[normalized + 1])
          /\ normalized' = normalized + 1
    /\ MainCatch(TypeError, stderr)
    /\ UNCHANGED <<requests, rawUserStories, transformedUserStories,
                   dirExists, file, writes, savedPath, statusCounts, stdout>>

\* the whole batch is mapped and saveToJSON is entered
SaveEnabled ==
    /\ pc = "transform"
    /\ rawUserStories.t = "array"
    /\ normalized = Len(rawUserStories.items)

\* saveToJSON: mkdirSync raises; saveToJSON reports and rethrows, main catches
SaveMkdirFails ==
    /\ SaveEnabled
    /\ ~dirExists
    /\ MainCatch(MkdirError,
                 Append(stderr, Log("Error saving to JSON:",
                                    Get(MkdirError, "message"))))
    /\ UNCHANGED <<requests, rawUserStories, transformedUserStories,
                   normalized, dirExists, file, writes, savedPath,
                   statusCounts, stdout>>

\* saveToJSON: writeFileSync raises, leaving the old content or a truncated
\* file; saveToJSON reports and rethrows, main catches
SaveWriteFails ==
    /\ SaveEnabled
    /\ dirExists' = TRUE
    /\ stdout' = IF dirExists THEN stdout
                 ELSE Append(stdout, Log("Created data directory", Undef))
    /\ writes' = writes + 1
    /\ file' \in {file, PartialFile}
    /\ MainCatch(WriteError,
                 Append(stderr, Log("Error saving to JSON:",
                                    Get(WriteError, "message"))))
    /\ UNCHANGED <<requests, rawUserStories, transformedUserStories,
                   normalized, savedPath, statusCounts>>

\* saveToJSON returns the path of the written document
SaveOk ==
    /\ SaveEnabled
    /\ dirExists' = TRUE
    /\ writes' = writes + 1
    /\ \E now \in Instants :
         file' = JSONStringify(OutputDocument(Arr(transformedUserStories), now))
    /\ stdout' = (IF dirExists THEN stdout
                  ELSE Append(stdout, Log("Created data directory", Undef)))
                 \o <<Log("Saved user stories:",
                          Num(Len(transformedUserStories)))>>
    /\ savedPath' = Str(OutputPath)
    /\ pc' = "summary"
    /\ UNCHANGED <<requests, rawUserStories, transformedUserStories,
                   normalized, statusCounts, stderr, exited, exitCode>>

\* the rest of main: the summary and the histogram of status names
Summary ==
    /\ pc = "summary"
    /\ statusCounts' = StatusCounts(transformedUserStories)
    /\ LET counts == StatusCounts(transformedUserStories)
           entries == ObjectEntries(counts) IN
       stdout' = stdout \o
         <<Log("Summary:", Undef),
           Log("Total user stories:", Num(Len(transformedUserStories))),
           Log("File saved:", savedPath),
           Log("Project:", Str(JIRA_CONFIG.projectKey)),
           Log("Stories by status:", Undef)>>
         \o [i \in 1..Len(entries) |->
                Log(entries[i] \o ":", counts.p[entries[i]])]
         \o <<Log("Process completed successfully!", Undef)>>
    /\ pc' = "completed"
    /\ UNCHANGED <<requests, rawUserStories, transformedUserStories,
                   normalized, dirExists, file, writes, savedPath,
                   stderr, exited, exitCode>>

\* main has returned and nothing is pending: the process ends with code 0
ProcessExit ==
    /\ pc = "completed"
    /\ exited' = TRUE
    /\ exitCode' = 0
    /\ pc' = "done"
    /\ UNCHANGED <<requests, rawUserStories, transformedUserStories,
                   normalized, dirExists, file, writes, savedPath,
                   statusCounts, stdout, stderr>>

Next ==
    \/ MainStart
    \/ FetchResolve
    \/ FetchReject
    \/ TransformNext
    \/ TransformRaise
    \/ SaveMkdirFails
    \/ SaveWriteFails
    \/ SaveOk
    \/ Summary
    \/ ProcessExit

Spec == Init /\ [][Next]_vars

(***************************************************************************)
(* transformUserStory over the wide set of raw issues: main resumed after  *)
(* a fetch that returned a single issue, its six lines already printed.    *)
(***************************************************************************)
InitNormalize ==
    /\ pc = "transform"
    /\ requests = 1
    /\ rawUserStories \in {Arr(<<i>>) : i \in RawIssues}
    /\ transformedUserStories = <<>>
    /\ normalized = 0
    /\ dirExists = TRUE
    /\ file = NoFile
    /\ writes = 0
    /\ savedPath = Undef
    /\ statusCounts = Undef
    /\ stdout = BannerLogs \o
                FetchedLogs(Obj([data |-> Obj([total |-> Num(1)])]))
    /\ stderr = <<>>
    /\ exited = FALSE
    /\ exitCode = 0

NextNormalize ==
    \/ TransformNext
    \/ TransformRaise

SpecNormalize == InitNormalize /\ [][NextNormalize]_vars

(***************************************************************************)
(* Properties.                                                             *)
(***************************************************************************)
Present(v) == ~Nullish(v)
Defined(v) == v.t # "undefined"

RawAt(i) == rawUserStories.items[i]
FieldsAt(i) == Get(RawAt(i), "fields")
StoryAt(i) == transformedUserStories[i]

\* the calls of transformUserStory made so far, and those that returned
Called == 1..normalized
Returned == 1..Len(transformedUserStories)

FetchFailed ==
    \E i \in 1..Len(stderr) : stderr[i].msg = "Error fetching user stories:"

FetchCompleted == requests = 1 /\ rawUserStories.t = "array"

BatchNormalized ==
    /\ rawUserStories.t = "array"
    /\ normalized = Len(rawUserStories.items)
    /\ Len(transformedUserStories) = Len(rawUserStories.items)

DocumentWritten == writes = 1 /\ file.t = "object" /\ Present(savedPath)

StoryKeys ==
    {"key", "summary", "description", "status", "priority", "assignee",
     "reporter", "created", "updated", "components", "labels", "fixVersions",
     "storyPoints", "issueLinks", "url"}

\* every key of the record, of its status and of its links holds a value
NoUndefinedKeys(story) ==
    /\ story.t = "object"
    /\ \A k \in StoryKeys : k \in DOMAIN story.p /\ Defined(story.p[k])
    /\ Defined(Get(Get(story, "status"), "name"))
    /\ Defined(Get(Get(story, "status"), "category"))
    /\ Get(story, "issueLinks").t = "array"
    /\ \A j \in 1..Len(Get(story, "issueLinks").items) :
         LET l == Get(story, "issueLinks").items[j] IN
         /\ Defined(Get(l, "type"))
         /\ Defined(Get(l, "direction"))
         /\ Defined(Get(l, "linkedIssue"))

\* the guarantee the claim assumes: identifier, summary and status present
MinimalGuarantee(issue) ==
    /\ Present(Get(issue, "key"))
    /\ Present(Get(Get(issue, "fields"), "summary"))
    /\ Present(Get(Get(issue, "fields"), "status"))

\* C2: for every raw record with key, summary and status present (anything
\* else possibly absent) transformUserStory returns, and no key of the
\* returned record is undefined.
C2_NoUndefinedKeys ==
    \A i \in Called :
        MinimalGuarantee(RawAt(i)) =>
            /\ i \in Returned
            /\ NoUndefinedKeys(StoryAt(i))

\* C3: the direction of a normalized link is the type's inward label when
\* the link carries inwardIssue and the outward label when it carries only
\* outwardIssue; linkedIssue is the key of the side issue present.
C3_LinkDirection ==
    \A i \in Returned :
        LET src == Get(FieldsAt(i), "issuelinks")
            out == Get(StoryAt(i), "issueLinks") IN
        src.t = "array" =>
            \A j \in 1..Len(src.items) :
                LET link == src.items[j]
                    inw == Get(link, "inwardIssue")
                    outw == Get(link, "outwardIssue") IN
                (Present(inw) \/ Present(outw)) =>
                    /\ Get(out.items[j], "direction") =
                         IF Present(inw) THEN Get(Get(link, "type"), "inward")
                         ELSE Get(Get(link, "type"), "outward")
                    /\ Get(out.items[j], "linkedIssue") =
                         IF Present(inw) THEN Get(inw, "key")
                         ELSE Get(outw, "key")

\* C4: the normalized description is always a string.
C4_DescriptionIsString ==
    \A i \in Returned : Get(StoryAt(i), "description").t = "string"

\* the text the path description.content[0].content[0].text leads to
RichText(fields) ==
    OptGet(OptFirst(OptGet(OptFirst(OptGet(Get(fields, "description"),
                                           "content")),
                           "content")),
           "text")

\* C5: the description is the rich text when that path resolves, else the
\* raw field when it is a plain string, else the placeholder.  Empty strings,
\* on which the claim is silent, are left unconstrained.
C5_FallbackOrder ==
    \A i \in Returned :
        LET d == Get(FieldsAt(i), "description")
            text == RichText(FieldsAt(i))
            got == Get(StoryAt(i), "description") IN
        (text # Str("") /\ d # Str("")) =>
            got = IF Defined(text) THEN text
                  ELSE IF d.t = "string" THEN d
                  ELSE Placeholder

\* C8: components, labels, fixVersions and issueLinks are always sequences:
\* empty when the source array is absent, else the projection of the source
\* entries (name, the label itself, name, the link's type and linked issue)
\* in the same order.
C8_ArrayDefaulting ==
    \A i \in Returned :
        \A k \in {"components", "labels", "fixVersions", "issueLinks"} :
            LET src == Get(FieldsAt(i),
                           IF k = "issueLinks" THEN "issuelinks" ELSE k)
                out == Get(StoryAt(i), k) IN
            /\ out.t = "array"
            /\ Nullish(src) => out.items = <<>>
            /\ src.t = "array" =>
                 /\ Len(out.items) = Len(src.items)
                 /\ \A j \in 1..Len(src.items) :
                      CASE k = "labels" -> out.items[j] = src.items[j]
                        [] k = "issueLinks" ->
                             /\ Get(out.items[j], "type") =
                                  Get(Get(src.items[j], "type"), "name")
                             /\ Get(out.items[j], "linkedIssue") \in
                                  {OptGet(Get(src.items[j], "inwardIssue"), "key"),
                                   OptGet(Get(src.items[j], "outwardIssue"), "key")}
                        [] OTHER -> out.items[j] = Get(src.items[j], "name")

\* a record without labels and one with two components were normalized
C8_Witness ==
    /\ Returned # {}
    /\ Nullish(Get(FieldsAt(1), "labels"))
    /\ Get(StoryAt(1), "labels") = EmptyArr
    /\ Get(StoryAt(1), "components") = Arr(<<Str("UI"), Str("API")>>)

\* the status names of the normalized batch, as property keys
StatusNames ==
    {ToStr(Get(Get(StoryAt(i), "status"), "name")) : i \in Returned}

RECURSIVE SumOfCounts(_, _)
SumOfCounts(counts, names) ==
    IF names = {} THEN 0
    ELSE LET n == CHOOSE x \in names : TRUE IN
         counts[n].n + SumOfCounts(counts, names \ {n})

\* C9: the histogram maps each status name of the batch to the number of
\* records with that name, has no other entry, and its counts sum to the
\* number of records.
C9_Histogram ==
    pc \in {"completed", "done"} =>
        /\ statusCounts.t = "object"
        /\ DOMAIN statusCounts.p = StatusNames
        /\ \A n \in StatusNames :
             statusCounts.p[n] =
                Num(Cardinality({i \in Returned :
                       ToStr(Get(Get(StoryAt(i), "status"), "name")) = n}))
        /\ SumOfCounts(statusCounts.p, StatusNames) = Len(transformedUserStories)

\* C6: after a successful run on N fetched issues the document holds
\* totalStories = N and N records, the i-th being the i-th fetched issue.
C6_CountPreserved ==
    pc \in {"summary", "completed", "done"} =>
        LET N == Len(rawUserStories.items) IN
        /\ file.t = "object"
        /\ Get(Get(file, "metadata"), "totalStories") = Num(N)
        /\ Get(file, "userStories").t = "array"
        /\ Len(Get(file, "userStories").items) = N
        /\ \A i \in 1..N :
             Get(Get(file, "userStories").items[i], "key") = Get(RawAt(i), "key")

\* a run on three issues has written its document
C6_Witness ==
    /\ pc = "done"
    /\ Len(rawUserStories.items) = 3
    /\ Get(Get(file, "metadata"), "totalStories") = Num(3)

\* C1: a run whose fetch failed normalizes nothing and writes nothing; a
\* write happens only after the fetch and the normalization of the whole
\* batch completed; without a write the file is as it was; and a failed run
\* does nothing more.
C1_AllOrNothing ==
    /\ [](FetchFailed => normalized = 0 /\ writes = 0)
    /\ [](writes > 0 => ~FetchFailed /\ FetchCompleted /\ BatchNormalized)
    /\ [](writes = 0 => file \in {NoFile, OldFile})
    /\ [][pc = "failed" => UNCHANGED vars]_vars

\* a run whose fetch failed has ended with the old file untouched
C1_Witness ==
    /\ FetchFailed
    /\ pc = "failed"
    /\ file = OldFile

AllStagesCompleted == FetchCompleted /\ BatchNormalized /\ DocumentWritten

\* C7: a run ends with code 0 exactly when fetch, normalize and write all
\* completed; any failure ends it with a non-zero code after a diagnostic
\* on the error stream; and the mapping of a batch never stalls.
C7_ExitContract ==
    /\ exited <=> pc \in {"failed", "done"}
    /\ exited => (exitCode = 0 <=> AllStagesCompleted)
    /\ (exited /\ exitCode # 0) =>
          /\ stderr # <<>>
          /\ stderr[Len(stderr)].msg = "Process failed:"
    /\ (stderr # <<>> /\ exited) => exitCode # 0
    /\ pc = "transform" =>
          SaveEnabled \/ ENABLED (TransformNext \/ TransformRaise)

\* a run whose fetch and normalization succeeded and whose write failed
C7_Witness ==
    /\ exited
    /\ exitCode = 1
    /\ FetchCompleted
    /\ BatchNormalized
    /\ writes = 1
    /\ Len(transformedUserStories) >= 1

\* C10: at most one request and one write; nothing is normalized before the
\* fetch completed, nothing is written before the whole batch is
\* normalized, and a successful run went through all three stages.
C10_StageOrder ==
    /\ [](requests <= 1 /\ writes <= 1)
    /\ [](normalized > 0 => FetchCompleted)
    /\ [](writes > 0 => FetchCompleted /\ BatchNormalized)
    /\ [](pc = "done" => AllStagesCompleted)
    /\ [][/\ requests' >= requests
          /\ normalized' >= normalized
          /\ writes' >= writes
          /\ normalized' # normalized => FetchCompleted /\ writes = 0
          /\ writes' # writes => BatchNormalized]_vars

\* a successful run on a batch of at least two issues
C10_Witness ==
    /\ pc = "done"
    /\ normalized >= 2
    /\ requests = 1
    /\ writes = 1

====
